---- MODULE Spec2Model ----
(***************************************************************************)
(* Ink-to-text converter: credential resolution, the extraction client and *)
(* the conversion orchestrator.                                            *)
(*                                                                         *)
(*   Spec         the App component of src/App.tsx (lines 83-224): the     *)
(*                key check on mount, key selection / manual entry, image  *)
(*                selection and handleConvert with its two suspension      *)
(*                points (fileToBase64, extractContentFromImage).          *)
(*   SpecExtract  one invocation of the extraction client: part_000        *)
(*                (extractContentFromImage) or services/geminiService.ts   *)
(*                (extractItemsAndRates), against a stubbed upstream.      *)
(*   SpecLive     Spec with the promises awaited by handleConvert settling. *)
(*   SpecStore    the Credential Store of utils/fileUtils.ts called        *)
(*                directly.                                                *)
(*   SpecAll      the runs of Spec and the runs of SpecExtract.            *)
(*   SpecTwice    the extraction client invoked repeatedly against the     *)
(*                stubbed upstream.                                        *)
(*   SpecHostApp  the App of src/unnamed/part_003, which leaves the key to *)
(*                the host and only asks for a key selection.              *)
(*                                                                         *)
(* JavaScript values are tagged records, strings are TLA+ strings, and     *)
(* String.prototype.includes, RegExp.test, String.prototype.trim and       *)
(* JSON.parse are computed character by character.                         *)
(***************************************************************************)
EXTENDS Integers, Sequences, FiniteSets, Bags, TLC

(***************************************************************************)
(* JavaScript values                                                       *)
(***************************************************************************)
Undefined == [t |-> "undefined"]

JsNull == [t |-> "null"]

Str(s) == [t |-> "str", v |-> s]

Num(n) == [t |-> "num", v |-> n]

Bool(b) == [t |-> "bool", v |-> b]

Arr(elems) == [t |-> "arr", v |-> elems]

Obj(members) == [t |-> "obj", v |-> members]

\* ToBoolean: undefined, null, false, 0 and "" are falsy; every object
\* (arrays included, even empty ones) is truthy.
Truthy(x) ==
    CASE x.t = "undefined" -> FALSE
      [] x.t = "null"      -> FALSE
      [] x.t = "bool"      -> x.v
      [] x.t = "num"       -> x.v # 0
      [] x.t = "str"       -> x.v # ""
      [] OTHER             -> TRUE

\* a || b
Or(a, b) == IF Truthy(a) THEN a ELSE b

\* typeof x === 'object' (true of null, arrays and plain objects)
TypeofObject(x) == x.t \in {"null", "arr", "obj"}

\* Array.isArray(x)
IsArray(x) == x.t = "arr"

RECURSIVE LastMember(_, _, _)
LastMember(members, key, i) ==
    IF i = 0 THEN Undefined
    ELSE IF members[i].k = key THEN members[i].v
    ELSE LastMember(members, key, i - 1)

\* x.key for a parsed JSON value: an own property of a plain object (the last
\* of duplicate keys wins), undefined on arrays ("items", "otherText" are not
\* array properties).
Get(x, key) == IF x.t = "obj" THEN LastMember(x.v, key, Len(x.v)) ELSE Undefined

(***************************************************************************)
(* Strings                                                                 *)
(***************************************************************************)
\* the character at position i, "" past the end
Ch(s, i) == IF i >= 1 /\ i <= Len(s) THEN SubSeq(s, i, i) ELSE ""

\* s.startsWith(n, i-1)
StartsAt(s, n, i) == i + Len(n) - 1 <= Len(s) /\ SubSeq(s, i, i + Len(n) - 1) = n

\* s.includes(n)
Includes(s, n) == \E i \in 1..(Len(s) + 1) : StartsAt(s, n, i)

WhiteSpace == {" ", "\t", "\n", "\r"}

RECURSIVE TrimStart(_)
TrimStart(s) == IF s # "" /\ Ch(s, 1) \in WhiteSpace THEN TrimStart(Tail(s)) ELSE s

RECURSIVE TrimEnd(_)
TrimEnd(s) ==
    IF s # "" /\ Ch(s, Len(s)) \in WhiteSpace THEN TrimEnd(SubSeq(s, 1, Len(s) - 1)) ELSE s

\* s.trim()
Trim(s) == TrimEnd(TrimStart(s))

(***************************************************************************)
(* JSON.parse, for texts without escape sequences, fractions and exponents *)
(***************************************************************************)
Digits == {"0", "1", "2", "3", "4", "5", "6", "7", "8", "9"}

DigitVal(c) ==
    CASE c = "0" -> 0 [] c = "1" -> 1 [] c = "2" -> 2 [] c = "3" -> 3 [] c = "4" -> 4
      [] c = "5" -> 5 [] c = "6" -> 6 [] c = "7" -> 7 [] c = "8" -> 8 [] c = "9" -> 9

ParseFail == [ok |-> FALSE, val |-> Undefined, next |-> 0]

Parsed(val, next) == [ok |-> TRUE, val |-> val, next |-> next]

RECURSIVE SkipWs(_, _)
SkipWs(s, i) == IF Ch(s, i) \in WhiteSpace THEN SkipWs(s, i + 1) ELSE i

\* the position of the closing quote of the string whose body starts at i,
\* 0 if there is none
RECURSIVE ClosingQuote(_, _)
ClosingQuote(s, i) ==
    IF i > Len(s) \/ Ch(s, i) = "\\" THEN 0
    ELSE IF Ch(s, i) = "\"" THEN i
    ELSE ClosingQuote(s, i + 1)

ParseString(s, i) ==
    LET q == ClosingQuote(s, i + 1)
    IN  IF Ch(s, i) = "\"" /\ q # 0
        THEN Parsed(Str(SubSeq(s, i + 1, q - 1)), q + 1)
        ELSE ParseFail

RECURSIVE ParseDigits(_, _, _)
ParseDigits(s, i, acc) ==
    IF Ch(s, i) \in Digits THEN ParseDigits(s, i + 1, 10 * acc + DigitVal(Ch(s, i)))
    ELSE Parsed(Num(acc), i)

ParseNumber(s, i) ==
    LET neg == Ch(s, i) = "-"
        j   == IF neg THEN i + 1 ELSE i
        r   == ParseDigits(s, j, 0)
    IN  IF Ch(s, j) \notin Digits THEN ParseFail
        ELSE IF Ch(s, j) = "0" /\ Ch(s, j + 1) \in Digits THEN ParseFail
        ELSE IF neg THEN Parsed(Num(0 - r.val.v), r.next) ELSE r

RECURSIVE ParseValue(_, _)
RECURSIVE ParseElements(_, _, _)
RECURSIVE ParseMembers(_, _, _)

\* the value that starts at the first non-blank position from i on
ParseValue(s, i0) ==
    LET i == SkipWs(s, i0)
        c == Ch(s, i)
    IN  CASE c = "\""                 -> ParseString(s, i)
          [] c \in Digits \cup {"-"}  -> ParseNumber(s, i)
          [] StartsAt(s, "null", i)   -> Parsed(JsNull, i + 4)
          [] StartsAt(s, "true", i)   -> Parsed(Bool(TRUE), i + 4)
          [] StartsAt(s, "false", i)  -> Parsed(Bool(FALSE), i + 5)
          [] c = "["                  ->
                IF Ch(s, SkipWs(s, i + 1)) = "]"
                THEN Parsed(Arr(<<>>), SkipWs(s, i + 1) + 1)
                ELSE ParseElements(s, i + 1, <<>>)
          [] c = "{"                  ->
                IF Ch(s, SkipWs(s, i + 1)) = "}"
                THEN Parsed(Obj(<<>>), SkipWs(s, i + 1) + 1)
                ELSE ParseMembers(s, i + 1, <<>>)
          [] OTHER                    -> ParseFail

\* element (, element)* ]
ParseElements(s, i, acc) ==
    LET e == ParseValue(s, i)
        j == SkipWs(s, e.next)
    IN  IF ~e.ok THEN ParseFail
        ELSE IF Ch(s, j) = "," THEN ParseElements(s, j + 1, Append(acc, e.val))
        ELSE IF Ch(s, j) = "]" THEN Parsed(Arr(Append(acc, e.val)), j + 1)
        ELSE ParseFail

\* string : value (, string : value)* }
ParseMembers(s, i, acc) ==
    LET k == ParseString(s, SkipWs(s, i))
        c == SkipWs(s, k.next)
        e == ParseValue(s, c + 1)
        j == SkipWs(s, e.next)
        m == [k |-> k.val.v, v |-> e.val]
    IN  IF ~k.ok \/ Ch(s, c) # ":" THEN ParseFail
        ELSE IF ~e.ok THEN ParseFail
        ELSE IF Ch(s, j) = "," THEN ParseMembers(s, j + 1, Append(acc, m))
        ELSE IF Ch(s, j) = "}" THEN Parsed(Obj(Append(acc, m)), j + 1)
        ELSE ParseFail

\* JSON.parse(text): [ok |-> TRUE, val |-> the value], or ok = FALSE where
\* JSON.parse throws a SyntaxError
JSONParse(text) ==
    LET r == ParseValue(text, 1)
    IN  IF r.ok /\ SkipWs(text, r.next) = Len(text) + 1
        THEN [ok |-> TRUE, val |-> r.val]
        ELSE [ok |-> FALSE, val |-> Undefined]

(***************************************************************************)
(* Thrown values and messages                                              *)
(***************************************************************************)
\* new Error(message)
Error(message) == [cls |-> "Error", message |-> message]

\* err instanceof Error (SyntaxError is a subclass; "other" is any thrown
\* value that is not an Error, such as the ProgressEvent of reader.onerror)
InstanceofError(err) == err.cls \in {"Error", "SyntaxError"}

InstanceofSyntaxError(err) == err.cls = "SyntaxError"

MsgNotAvailable == "API key is not available. Please select or enter an API key."

MsgNoData == "The API did not return any data. The handwriting might be illegible."

MsgUnexpectedFormat == "API returned an unexpected format. Please check the image and try again."

MsgFailedToProcess == "Failed to process the AI's response. The handwriting might be illegible or in an unexpected format."

MsgEnvNotSet == "API_KEY environment variable is not set."

MsgServicePrefix == "AI service error: "

MsgUnknownConversion == "An unknown error occurred while converting the image. Please try again."

(***************************************************************************)
(* Extraction client                                                       *)
(***************************************************************************)
\* What ai.models.generateContent settles with: a response whose .text is a
\* string or undefined, or a rejection with a thrown value.
Response(text) == [kind |-> "response", text |-> text]

Rejection(err) == [kind |-> "reject", err |-> err]

Return(value) == [kind |-> "return", value |-> value]

Throw(err) == [kind |-> "throw", err |-> err]

\* part_000: const apiKey = isAistudioEnv ? process.env.API_KEY : getApiKey()
ambientApiKey(isAistudio, env, storedKey) == IF isAistudio THEN env ELSE storedKey

\* what JSON.parse throws on a text that is not JSON
SyntaxError == [cls |-> "SyntaxError", message |-> "Unexpected token"]

\* lines 80-83 without the "|| []" and "|| ''" defaults: the parsed fields
\* are handed on as they are
contentOfParsedNoDefaults(parsed) ==
    IF ~parsed.ok THEN Throw(SyntaxError)
    ELSE IF ~TypeofObject(parsed.val) \/ parsed.val = JsNull
         THEN Throw(Error(MsgUnexpectedFormat))
    ELSE Return([items     |-> Get(parsed.val, "items"),
                 otherText |-> Get(parsed.val, "otherText")])

\* part_000 lines 74-83, for what JSON.parse gave
contentOfParsed(parsed) ==
    IF ~parsed.ok THEN Throw(SyntaxError)
    ELSE IF ~TypeofObject(parsed.val) \/ parsed.val = JsNull
         THEN Throw(Error(MsgUnexpectedFormat))
    ELSE Return([items     |-> Or(Get(parsed.val, "items"), Arr(<<>>)),
                 otherText |-> Or(Get(parsed.val, "otherText"), Str(""))])

\* the try block without the check of lines 68-72: JSON.parse(undefined) and
\* JSON.parse("") throw a SyntaxError
contentTryNoEmptyCheck(response) ==
    IF response.text.t # "str" THEN Throw(SyntaxError)
    ELSE contentOfParsed(JSONParse(response.text.v))

\* part_000 lines 68-83: the body of the try block after the await
contentTry(response) ==
    IF ~Truthy(response.text) THEN Throw(Error(MsgNoData))
    ELSE contentOfParsed(JSONParse(response.text.v))

\* the catch block reporting every error as an unreadable response, without
\* the instanceof test of line 87
contentCatchAllFailed(err) == Throw(Error(MsgFailedToProcess))

\* part_000 lines 85-92: the catch block
contentCatch(err) ==
    IF InstanceofSyntaxError(err) THEN Throw(Error(MsgFailedToProcess)) ELSE Throw(err)

\* what leaves the try/catch of part_000 for what the try block ended with
contentSettle(inTry) == IF inTry.kind = "throw" THEN contentCatch(inTry.err) ELSE inTry

\* part_000 extractContentFromImage from the await on (lines 38-92): the
\* outcome for what generateContent settled with
extractContentOutcome(reply) ==
    contentSettle(IF reply.kind = "reject" THEN Throw(reply.err) ELSE contentTry(reply))

\* services/geminiService.ts lines 52-58, for what JSON.parse gave
itemsOfParsed(parsed) ==
    IF ~parsed.ok THEN Throw(SyntaxError)
    ELSE IF ~IsArray(parsed.val) THEN Throw(Error(MsgUnexpectedFormat))
    ELSE Return(parsed.val)

\* services/geminiService.ts lines 46-58: the body of the try block after
\* the await
itemsTry(response) ==
    IF ~Truthy(response.text) THEN Throw(Error(MsgNoData))
    ELSE itemsOfParsed(JSONParse(response.text.v))

\* services/geminiService.ts lines 60-70: the catch block
itemsCatch(err) ==
    IF InstanceofSyntaxError(err) THEN Throw(Error(MsgFailedToProcess))
    ELSE IF InstanceofError(err) THEN Throw(Error(MsgServicePrefix \o err.message))
    ELSE Throw(Error(MsgUnknownConversion))

itemsSettle(inTry) == IF inTry.kind = "throw" THEN itemsCatch(inTry.err) ELSE inTry

\* services/geminiService.ts extractItemsAndRates from the await on
extractItemsOutcome(reply) ==
    itemsSettle(IF reply.kind = "reject" THEN Throw(reply.err) ELSE itemsTry(reply))

(***************************************************************************)
(* Credential store (utils/fileUtils.ts): one sessionStorage cell          *)
(***************************************************************************)
\* sessionStorage.getItem(API_KEY_SESSION_STORAGE_KEY): null or a string
getApiKey(cell) == cell

\* the cell after sessionStorage.setItem(API_KEY_SESSION_STORAGE_KEY, apiKey)
setApiKey(cell, apiKey) == Str(apiKey)

\* clearApiKey leaving the item in place
clearApiKeyKeeps(cell) == cell

\* the cell after sessionStorage.removeItem(API_KEY_SESSION_STORAGE_KEY)
clearApiKey(cell) == JsNull

\* hasApiKey: getApiKey() !== null
hasApiKey(cell) == getApiKey(cell) # JsNull

(***************************************************************************)
(* Orchestrator messages and failure classification (App.tsx)              *)
(***************************************************************************)
MsgNoImage == "Please upload an image first."

MsgKeyMissing == "API Key is missing. Please refresh and provide a key."

MsgUnknown == "An unknown error occurred."

MsgKeyPrompt == "Your API key is invalid or missing. Please select or enter a valid key to continue."

\* err instanceof Error ? err.message : 'An unknown error occurred.'
errorMessageOf(err) == IF InstanceofError(err) THEN err.message ELSE MsgUnknown

\* /API key (.*?) not found/.test(m): "API key ", then any characters but
\* line terminators, then " not found"
KeyNotFoundRegex(m) ==
    \E i \in 1..Len(m) :
        /\ StartsAt(m, "API key ", i)
        /\ \E j \in (i + 8)..Len(m) :
            /\ StartsAt(m, " not found", j)
            /\ \A k \in (i + 8)..(j - 1) : Ch(m, k) \notin {"\n", "\r"}

\* the test of the older App variants (part_001 line 175, App.tsx line 558):
\* only "API key not valid" counts as a credential failure
isApiKeyErrorNarrow(m) == Includes(m, "API key not valid")

\* App.tsx lines 206-209
isApiKeyError(m) ==
    \/ Includes(m, "API key not valid")
    \/ Includes(m, "API key is not available")
    \/ KeyNotFoundRegex(m)
    \/ Includes(m, "provide one")

(***************************************************************************)
(* Bounds and input sets                                                   *)
(***************************************************************************)
\* conversions that may be outstanding at once
MaxCalls == 2

Images == {"img1", "img2"}

File(name) == [t |-> "file", name |-> name]

EnvKeyText == "envkey"

HostKeyText == "hostkey"

\* what the user may type in the manual key field
ManualKeyInputs == {"", "  ", " k2 ", "k2"}

\* what extractContentFromImage (imported at line 9, called at line 198)
\* resolves with for an image that extracts cleanly
GoodResult(img) ==
    [items      |-> Arr(<<Obj(<<[k |-> "item", v |-> Str(img)], [k |-> "rate", v |-> Str("1")]>>)>>),
     headerText |-> Str(img),
     footerText |-> Str("")]

\* messages of the Errors the extraction may reject with
UpstreamErrors ==
    { "API key not valid. Please pass a valid API key.",
      "Network timeout",
      "API key abc not found",
      "API key not found",
      "You must provide one",
      MsgNotAvailable,
      MsgNoData }

\* what the awaited extractContentFromImage(base64Image, mimeType,
\* activeApiKey) of line 198 may settle with during a conversion of img: its
\* result, or a rejection with an Error
AppOutcomes(img) ==
    {Return(GoodResult(img))} \cup {Throw(Error(m)) : m \in UpstreamErrors}

\* what fileToBase64 rejects with: the ProgressEvent handed to reader.onerror
\* (utils/fileUtils.ts line 16); readAsDataURL always yields a string, so
\* the rejection of line 13 is not reached
EncodingFailures == {[cls |-> "other", message |-> ""]}

(***************************************************************************)
(* State                                                                   *)
(***************************************************************************)
VARIABLES
    envKey,         \* process.env.API_KEY: undefined or a string
    aistudio,       \* window.aistudio exists, with hasSelectedApiKey and openSelectKey
    hostHasKey,     \* what window.aistudio.hasSelectedApiKey() resolves to
    stored,         \* the sessionStorage cell 'gemini-api-key': null or a string
    isAistudioEnv, isKeyReady, activeApiKey, apiKeyError,
    imageFile, convertedItems, headerText, footerText, isLoading, error,
    checkPc,        \* checkKey: "start", "probing" (awaiting the host), "done"
    selecting,      \* handleSelectKey calls awaiting openSelectKey
    calls,          \* bag of outstanding handleConvert calls: [img, key, stage]
    xVariant, xPc, xReply, xOutcome, netCalls,  \* one extraction-client invocation
    sOps,           \* Credential Store operations called directly so far
    lastSaved,      \* the token of the last setApiKey not followed by clearApiKey, else null
    loaded,         \* what the last getApiKey / hasApiKey call returned
    xInput,         \* the image payload and media type the client is invoked with
    xRuns,          \* invocations of the client before this one
    earlier,        \* an earlier invocation: its input, credential, reply and outcome
    needsKeySelection   \* part_003: the key-selection screen is to be shown

world == <<envKey, aistudio, hostHasKey, stored>>

resolver == <<isAistudioEnv, isKeyReady, activeApiKey, apiKeyError>>

conversion == <<imageFile, convertedItems, headerText, footerText, isLoading, error>>

app == <<resolver, conversion, checkPc, selecting, calls>>

storeCalls == <<sOps, lastSaved, loaded>>

runs == <<xInput, xRuns, earlier>>

client == <<xVariant, xPc, xReply, xOutcome, netCalls, storeCalls, runs>>

vars == <<world, app, client, needsKeySelection>>

\* useState initial values, App.tsx lines 84-96
AppInit ==
    /\ isAistudioEnv = FALSE
    /\ isKeyReady = FALSE
    /\ activeApiKey = JsNull
    /\ apiKeyError = JsNull
    /\ imageFile = JsNull
    /\ convertedItems = Arr(<<>>)
    /\ headerText = Str("")
    /\ footerText = Str("")
    /\ isLoading = FALSE
    /\ error = JsNull
    /\ checkPc = "start"
    /\ selecting = 0
    /\ calls = EmptyBag

StoreOff ==
    /\ sOps = 0
    /\ lastSaved = JsNull
    /\ loaded = [kind |-> "none"]

RunsOff ==
    /\ xInput = [kind |-> "none"]
    /\ xRuns = 0
    /\ earlier = [kind |-> "none"]

ClientOff ==
    /\ xVariant = "none"
    /\ xPc = "off"
    /\ xReply = [kind |-> "none"]
    /\ xOutcome = [kind |-> "none"]
    /\ netCalls = 0
    /\ StoreOff
    /\ RunsOff

\* The deployment: an environment key or none, the AI Studio host or none
\* (with or without a selected key), a key saved earlier in this tab or none.
Init ==
    /\ envKey \in {Undefined, Str(EnvKeyText)}
    /\ aistudio \in BOOLEAN
    /\ hostHasKey \in BOOLEAN
    /\ hostHasKey => aistudio
    /\ stored \in {JsNull, Str("k1")}
    /\ AppInit
    /\ ClientOff
    /\ needsKeySelection = FALSE

(***************************************************************************)
(* What is on screen (App.tsx lines 371-373, 409-412, 45-70). A handler    *)
(* runs only while the control it is bound to is rendered. handleConvert   *)
(* and handleSubmit check their own preconditions (lines 179-187, 28) and  *)
(* do not rely on their buttons being disabled, so they are taken whenever *)
(* the button is rendered, enabled or not.                                 *)
(***************************************************************************)
\* if (!isKeyReady) return <ApiKeySelectionScreen .../>
KeyScreenShown == checkPc # "start" /\ ~isKeyReady

\* the ImageUploader and the Convert button are rendered
MainScreenShown == checkPc # "start" /\ isKeyReady

\* isManualMode={!isAistudioEnv}: the form, else the Select API Key button
isManualMode == ~isAistudioEnv

\* disabled={isLoading || !imageFile}
ConvertButtonEnabled == MainScreenShown /\ ~(isLoading \/ ~Truthy(imageFile))

(***************************************************************************)
(* Credential resolution (App.tsx lines 104-163)                           *)
(***************************************************************************)
\* The mount effect up to checkKey's first suspension: the environment key,
\* else the host probe (awaited), else the stored key.
checkKey ==
    /\ checkPc = "start"
    /\ isAistudioEnv' = aistudio
    /\ IF Truthy(envKey)
       THEN /\ activeApiKey' = envKey
            /\ isKeyReady' = TRUE
            /\ checkPc' = "done"
       ELSE IF aistudio
       THEN /\ checkPc' = "probing"
            /\ UNCHANGED <<activeApiKey, isKeyReady>>
       ELSE /\ checkPc' = "done"
            /\ IF Truthy(getApiKey(stored))
               THEN activeApiKey' = getApiKey(stored) /\ isKeyReady' = TRUE
               ELSE UNCHANGED <<activeApiKey, isKeyReady>>
    /\ UNCHANGED <<world, apiKeyError, conversion, selecting, calls, client, needsKeySelection>>

\* window.aistudio.hasSelectedApiKey() resolves (lines 121-126)
checkKeyProbed ==
    /\ checkPc = "probing"
    /\ checkPc' = "done"
    /\ IF hostHasKey
       THEN activeApiKey' = envKey /\ isKeyReady' = TRUE
       ELSE UNCHANGED <<activeApiKey, isKeyReady>>
    /\ UNCHANGED <<world, isAistudioEnv, apiKeyError, conversion, selecting, calls, client,
                   needsKeySelection>>

\* window.aistudio.hasSelectedApiKey() rejects: checkKey has no handler for
\* it, its promise rejects and nothing is set
checkKeyProbeFailed ==
    /\ checkPc = "probing"
    /\ checkPc' = "done"
    /\ UNCHANGED <<world, resolver, conversion, selecting, calls, client, needsKeySelection>>

\* The host puts the selected key in process.env.API_KEY (the comments of
\* lines 123 and 151); when it does so is the host's business.
hostInjectsKey ==
    /\ aistudio /\ hostHasKey
    /\ envKey # Str(HostKeyText)
    /\ envKey' = Str(HostKeyText)
    /\ UNCHANGED <<aistudio, hostHasKey, stored, app, client, needsKeySelection>>

\* outstanding openSelectKey dialogs
MaxSelecting == 1

\* handleSelectKey up to its await (lines 146-150)
handleSelectKey ==
    /\ KeyScreenShown /\ ~isManualMode
    /\ IF aistudio
       THEN selecting < MaxSelecting /\ selecting' = selecting + 1
       ELSE UNCHANGED selecting
    /\ UNCHANGED <<world, resolver, conversion, checkPc, calls, client, needsKeySelection>>

\* openSelectKey() resolves, with a key picked or the dialog dismissed, and
\* lines 152-154 run
openSelectKeyResolved ==
    /\ selecting > 0
    /\ selecting' = selecting - 1
    /\ \E picked \in BOOLEAN :
        /\ hostHasKey' = (hostHasKey \/ picked)
        /\ envKey' \in {envKey} \cup (IF picked THEN {Str(HostKeyText)} ELSE {})
    /\ activeApiKey' = Or(envKey', JsNull)
    /\ isKeyReady' = TRUE
    /\ apiKeyError' = JsNull
    /\ UNCHANGED <<aistudio, stored, isAistudioEnv, conversion, checkPc, calls, client,
                   needsKeySelection>>

\* openSelectKey() rejects: handleSelectKey's promise rejects, nothing is set
openSelectKeyFailed ==
    /\ selecting > 0
    /\ selecting' = selecting - 1
    /\ UNCHANGED <<world, resolver, conversion, checkPc, calls, client, needsKeySelection>>

\* handleSaveKey without the setIsKeyReady(true) of line 161
handleSaveKeyNotReady(key) ==
    /\ stored' = setApiKey(stored, key)
    /\ activeApiKey' = Str(key)
    /\ apiKeyError' = JsNull
    /\ UNCHANGED isKeyReady

\* handleSaveKey without the setApiKey(key) of line 159
handleSaveKeyNoStore(key) ==
    /\ UNCHANGED stored
    /\ activeApiKey' = Str(key)
    /\ isKeyReady' = TRUE
    /\ apiKeyError' = JsNull

\* handleSaveKey (lines 158-163)
handleSaveKey(key) ==
    /\ stored' = setApiKey(stored, key)
    /\ activeApiKey' = Str(key)
    /\ isKeyReady' = TRUE
    /\ apiKeyError' = JsNull

\* The manual form's handleSubmit (lines 26-31), which calls onSave =
\* handleSaveKey with the trimmed input unless that is empty
handleSubmitWith(manualKey) ==
    /\ KeyScreenShown /\ isManualMode
    /\ IF Truthy(Str(Trim(manualKey)))
       THEN handleSaveKey(Trim(manualKey))
       ELSE UNCHANGED <<stored, activeApiKey, isKeyReady, apiKeyError>>
    /\ UNCHANGED <<envKey, aistudio, hostHasKey, isAistudioEnv, conversion, checkPc,
                   selecting, calls, client, needsKeySelection>>

handleSubmit == \E manualKey \in ManualKeyInputs : handleSubmitWith(manualKey)

(***************************************************************************)
(* Conversion (App.tsx lines 165-224)                                      *)
(***************************************************************************)
\* handleImageSelect without the setError(null) of line 175
handleImageSelectKeepsError ==
    /\ MainScreenShown
    /\ \E name \in Images :
        /\ imageFile' = File(name)
    /\ convertedItems' = Arr(<<>>)
    /\ headerText' = Str("")
    /\ footerText' = Str("")
    /\ UNCHANGED <<world, resolver, isLoading, error, checkPc, selecting, calls, client,
                   needsKeySelection>>

\* handleImageSelect (lines 165-176)
handleImageSelect ==
    /\ MainScreenShown
    /\ \E name \in Images :
        /\ imageFile' = File(name)
    /\ convertedItems' = Arr(<<>>)
    /\ headerText' = Str("")
    /\ footerText' = Str("")
    /\ error' = JsNull
    /\ UNCHANGED <<world, resolver, isLoading, checkPc, selecting, calls, client,
                   needsKeySelection>>

Call(img, key, stage) == [img |-> img, key |-> key, stage |-> stage]

Outstanding == BagToSet(calls)

\* handleConvert without the key check of lines 183-187: the request goes
\* out with whatever activeApiKey holds
handleConvertNoKeyCheck ==
    /\ MainScreenShown
    /\ IF ~Truthy(imageFile)
       THEN /\ error' = Str(MsgNoImage)
            /\ UNCHANGED <<isKeyReady, isLoading, convertedItems, headerText, footerText, calls>>
       ELSE /\ BagCardinality(calls) < MaxCalls
            /\ isLoading' = TRUE
            /\ error' = JsNull
            /\ convertedItems' = Arr(<<>>)
            /\ headerText' = Str("")
            /\ footerText' = Str("")
            /\ calls' = calls (+) SetToBag({Call(imageFile.name, activeApiKey, "encoding")})
            /\ UNCHANGED isKeyReady
    /\ UNCHANGED <<world, isAistudioEnv, activeApiKey, apiKeyError, imageFile, checkPc,
                   selecting, client, needsKeySelection>>

\* handleConvert up to its first await (lines 178-196)
handleConvert ==
    /\ MainScreenShown
    /\ IF ~Truthy(imageFile)
       THEN /\ error' = Str(MsgNoImage)
            /\ UNCHANGED <<isKeyReady, isLoading, convertedItems, headerText, footerText, calls>>
       ELSE IF ~Truthy(activeApiKey)
       THEN /\ error' = Str(MsgKeyMissing)
            /\ isKeyReady' = FALSE
            /\ UNCHANGED <<isLoading, convertedItems, headerText, footerText, calls>>
       ELSE /\ BagCardinality(calls) < MaxCalls
            /\ isLoading' = TRUE
            /\ error' = JsNull
            /\ convertedItems' = Arr(<<>>)
            /\ headerText' = Str("")
            /\ footerText' = Str("")
            /\ calls' = calls (+) SetToBag({Call(imageFile.name, activeApiKey, "encoding")})
            /\ UNCHANGED isKeyReady
    /\ UNCHANGED <<world, isAistudioEnv, activeApiKey, apiKeyError, imageFile, checkPc,
                   selecting, client, needsKeySelection>>

\* fileToBase64 resolves and extractContentFromImage is called with the
\* image and key handleConvert was created with (lines 196-198)
fileToBase64Resolved ==
    /\ \E c \in Outstanding :
        /\ c.stage = "encoding"
        /\ calls' = (calls (-) SetToBag({c})) (+) SetToBag({Call(c.img, c.key, "extracting")})
    /\ UNCHANGED <<world, resolver, conversion, checkPc, selecting, client, needsKeySelection>>

\* the catch block without the finally block of lines 221-223
convertFailedNoFinally(err) ==
    /\ IF isApiKeyError(errorMessageOf(err))
       THEN /\ isKeyReady' = FALSE
            /\ activeApiKey' = JsNull
            /\ stored' = clearApiKey(stored)
            /\ error' = JsNull
            /\ apiKeyError' = Str(MsgKeyPrompt)
       ELSE /\ error' = Str(errorMessageOf(err))
            /\ UNCHANGED <<isKeyReady, activeApiKey, stored, apiKeyError>>
    /\ UNCHANGED <<isLoading, convertedItems, headerText, footerText>>

\* the catch block without the clearApiKey() of line 214
convertFailedKeepsStore(err) ==
    /\ IF isApiKeyError(errorMessageOf(err))
       THEN /\ isKeyReady' = FALSE
            /\ activeApiKey' = JsNull
            /\ error' = JsNull
            /\ apiKeyError' = Str(MsgKeyPrompt)
            /\ UNCHANGED stored
       ELSE /\ error' = Str(errorMessageOf(err))
            /\ UNCHANGED <<isKeyReady, activeApiKey, stored, apiKeyError>>
    /\ isLoading' = FALSE
    /\ UNCHANGED <<convertedItems, headerText, footerText>>

\* the catch block treating every failure as a credential failure, without
\* the test of line 211
convertFailedAlwaysInvalidates(err) ==
    /\ isKeyReady' = FALSE
    /\ activeApiKey' = JsNull
    /\ stored' = clearApiKey(stored)
    /\ error' = JsNull
    /\ apiKeyError' = Str(MsgKeyPrompt)
    /\ isLoading' = FALSE
    /\ UNCHANGED <<convertedItems, headerText, footerText>>

\* the catch block (lines 203-220) and the finally block (221-223)
convertFailed(err) ==
    /\ IF isApiKeyError(errorMessageOf(err))
       THEN /\ isKeyReady' = FALSE
            /\ activeApiKey' = JsNull
            /\ stored' = clearApiKey(stored)
            /\ error' = JsNull
            /\ apiKeyError' = Str(MsgKeyPrompt)
       ELSE /\ error' = Str(errorMessageOf(err))
            /\ UNCHANGED <<isKeyReady, activeApiKey, stored, apiKeyError>>
    /\ isLoading' = FALSE
    /\ UNCHANGED <<convertedItems, headerText, footerText>>

\* the success path without the setApiKeyError(null) of line 202
convertSucceededKeepsPrompt(result) ==
    /\ convertedItems' = result.items
    /\ headerText' = result.headerText
    /\ footerText' = result.footerText
    /\ isLoading' = FALSE
    /\ UNCHANGED <<isKeyReady, activeApiKey, stored, error, apiKeyError>>

\* lines 199-202 and the finally block
convertSucceeded(result) ==
    /\ convertedItems' = result.items
    /\ headerText' = result.headerText
    /\ footerText' = result.footerText
    /\ apiKeyError' = JsNull
    /\ isLoading' = FALSE
    /\ UNCHANGED <<isKeyReady, activeApiKey, stored, error>>

\* the rest of handleConvert once the awaited call has settled with o
convertSettled(o) == IF o.kind = "return" THEN convertSucceeded(o.value) ELSE convertFailed(o.err)

\* fileToBase64 rejects
fileToBase64Failed ==
    /\ \E c \in Outstanding, err \in EncodingFailures :
        /\ c.stage = "encoding"
        /\ calls' = calls (-) SetToBag({c})
        /\ convertFailed(err)
    /\ UNCHANGED <<envKey, aistudio, hostHasKey, isAistudioEnv, imageFile, checkPc,
                   selecting, client, needsKeySelection>>

\* extractContentFromImage, called for the outstanding conversion c, settles
\* with outcome o and the rest of handleConvert runs (lines 198-223)
extractSettledWith(c, o) ==
    /\ c \in Outstanding
    /\ c.stage = "extracting"
    /\ calls' = calls (-) SetToBag({c})
    /\ convertSettled(o)
    /\ UNCHANGED <<envKey, aistudio, hostHasKey, isAistudioEnv, imageFile, checkPc,
                   selecting, client, needsKeySelection>>

extractSettled == \E c \in Outstanding : \E o \in AppOutcomes(c.img) : extractSettledWith(c, o)

Next ==
    \/ checkKey
    \/ checkKeyProbed
    \/ checkKeyProbeFailed
    \/ hostInjectsKey
    \/ handleSelectKey
    \/ openSelectKeyResolved
    \/ openSelectKeyFailed
    \/ handleSubmit
    \/ handleImageSelect
    \/ handleConvert
    \/ fileToBase64Resolved
    \/ fileToBase64Failed
    \/ extractSettled

Spec == Init /\ [][Next]_vars

\* Spec with the two awaited promises of handleConvert settling: the
\* FileReader ends with onload or onerror (utils/fileUtils.ts lines 6-16) and
\* the extraction call resolves or rejects
SpecLive ==
    /\ Spec
    /\ WF_vars(fileToBase64Resolved \/ fileToBase64Failed)
    /\ WF_vars(extractSettled)

(***************************************************************************)
(* One invocation of the extraction client against a stubbed upstream      *)
(***************************************************************************)
\* response texts the stub may return
StubTexts ==
    { "{\"items\":[{\"item\":\"Screen Repair\",\"rate\":\"2500\"}],\"otherText\":\"call back tomorrow\"}",
      "{\"items\":null,\"otherText\":null}",
      "{\"items\":[],\"otherText\":\"\"}",
      "{\"otherText\":\"note\"}",
      "{}",
      "{\"items\":\"abc\",\"otherText\":5}",
      "{\"items\":0,\"otherText\":false}",
      "[{\"item\":\"Screen Repair\",\"rate\":\"2500\"}]",
      "[]",
      "[1,\"two\"]",
      "42",
      "null",
      "\"text\"",
      "not json",
      "{\"items\":[1,2]",
      " ",
      "" }

\* what the stubbed generateContent may settle with
StubReplies ==
    {Response(Str(t)) : t \in StubTexts}
        \cup {Response(Undefined)}
        \cup {Rejection(Error("API key not valid. Please pass a valid API key.")),
              Rejection(Error("Network timeout")),
              Rejection(SyntaxError),
              Rejection([cls |-> "other", message |-> ""])}

\* The client under test ("content": part_000, "items": geminiService.ts)
\* and its ambient credential sources; the App is not mounted.
InitExtract ==
    /\ envKey \in {Undefined, Str(""), Str(EnvKeyText)}
    /\ aistudio \in BOOLEAN
    /\ hostHasKey = FALSE
    /\ stored \in {JsNull, Str(""), Str("k1")}
    /\ AppInit
    /\ xVariant \in {"content", "items"}
    /\ xPc = IF xVariant = "items" THEN "unloaded" ELSE "idle"
    /\ xReply = [kind |-> "none"]
    /\ xOutcome = [kind |-> "none"]
    /\ netCalls = 0
    /\ StoreOff
    /\ RunsOff
    /\ needsKeySelection = FALSE

\* services/geminiService.ts lines 3-9: the module throws while loading
\* unless process.env.API_KEY is set, and then exports nothing to call
loadGeminiService ==
    /\ xVariant = "items" /\ xPc = "unloaded"
    /\ IF ~Truthy(envKey)
       THEN xPc' = "loadFailed" /\ xOutcome' = Throw(Error(MsgEnvNotSet))
       ELSE xPc' = "idle" /\ UNCHANGED xOutcome
    /\ UNCHANGED <<world, app, xVariant, xReply, netCalls, storeCalls, runs, needsKeySelection>>

\* part_000 without the check of lines 14-16: the request is built with
\* whatever key there is
callExtractContentUnchecked ==
    /\ xVariant = "content" /\ xPc = "idle"
    /\ xPc' = "awaiting"
    /\ netCalls' = netCalls + 1
    /\ UNCHANGED <<world, app, xVariant, xReply, xOutcome, storeCalls, runs, needsKeySelection>>

\* part_000 lines 9-38: the credential check, then the request
callExtractContent ==
    /\ xVariant = "content" /\ xPc = "idle"
    /\ IF ~Truthy(ambientApiKey(aistudio, envKey, getApiKey(stored)))
       THEN /\ xPc' = "done"
            /\ xOutcome' = Throw(Error(MsgNotAvailable))
            /\ UNCHANGED netCalls
       ELSE /\ xPc' = "awaiting"
            /\ netCalls' = netCalls + 1
            /\ UNCHANGED xOutcome
    /\ UNCHANGED <<world, app, xVariant, xReply, storeCalls, runs, needsKeySelection>>

\* services/geminiService.ts lines 16-27: the request, with the module's key
callExtractItems ==
    /\ xVariant = "items" /\ xPc = "idle"
    /\ xPc' = "awaiting"
    /\ netCalls' = netCalls + 1
    /\ UNCHANGED <<world, app, xVariant, xReply, xOutcome, storeCalls, runs, needsKeySelection>>

\* a client that sends the request again when generateContent rejects
generateContentSettledRetries ==
    /\ xPc = "awaiting"
    /\ \E reply \in StubReplies :
        /\ xReply' = reply
        /\ IF reply.kind = "reject"
           THEN xPc' = "idle" /\ UNCHANGED xOutcome
           ELSE /\ xPc' = "done"
                /\ xOutcome' = IF xVariant = "content" THEN extractContentOutcome(reply)
                               ELSE extractItemsOutcome(reply)
    /\ UNCHANGED <<world, app, xVariant, netCalls, storeCalls, runs, needsKeySelection>>

\* a client that keeps count between invocations and refuses every call
\* after its first
generateContentSettledOnceOnly ==
    /\ xPc = "awaiting"
    /\ \E reply \in StubReplies :
        /\ xReply' = reply
        /\ xOutcome' = IF xRuns > 0 THEN Throw(Error("Too many requests"))
                       ELSE IF xVariant = "content" THEN extractContentOutcome(reply)
                       ELSE extractItemsOutcome(reply)
    /\ xPc' = "done"
    /\ UNCHANGED <<world, app, xVariant, netCalls, storeCalls, runs, needsKeySelection>>

\* generateContent settles and the client returns or throws
generateContentSettled ==
    /\ xPc = "awaiting"
    /\ \E reply \in StubReplies :
        /\ xReply' = reply
        /\ xOutcome' = IF xVariant = "content" THEN extractContentOutcome(reply)
                       ELSE extractItemsOutcome(reply)
    /\ xPc' = "done"
    /\ UNCHANGED <<world, app, xVariant, netCalls, storeCalls, runs, needsKeySelection>>

NextExtract ==
    \/ loadGeminiService
    \/ callExtractContent
    \/ callExtractItems
    \/ generateContentSettled

SpecExtract == InitExtract /\ [][NextExtract]_vars

\* The App, or else one invocation of an extraction client: the runs of Spec
\* and the runs of SpecExtract.
InitAll == Init \/ InitExtract

NextAll ==
    \/ xVariant = "none" /\ Next
    \/ xVariant # "none" /\ NextExtract

SpecAll == InitAll /\ [][NextAll]_vars

(***************************************************************************)
(* The extraction client invoked repeatedly against a stubbed upstream     *)
(***************************************************************************)
\* invocations of the client in one run
MaxRuns == 2

\* base64Image and mimeType the client is invoked with
ExtractInputs ==
    { [data |-> "b64-img1", mimeType |-> "image/png"],
      [data |-> "b64-img1", mimeType |-> "image/jpeg"],
      [data |-> "b64-img2", mimeType |-> "image/png"] }

\* the credential the invocation at hand uses: part_000 reads it when called
\* (line 12), services/geminiService.ts when the module loads (line 3)
credentialInUse ==
    IF xVariant = "content" THEN ambientApiKey(aistudio, envKey, getApiKey(stored)) ELSE envKey

\* the invocation that has just ended
ThisRun ==
    [kind |-> "run", input |-> xInput, key |-> credentialInUse, reply |-> xReply,
     outcome |-> xOutcome]

InitTwice ==
    /\ envKey \in {Undefined, Str(EnvKeyText)}
    /\ aistudio \in BOOLEAN
    /\ hostHasKey = FALSE
    /\ stored \in {JsNull, Str("k1")}
    /\ AppInit
    /\ xVariant \in {"content", "items"}
    /\ xPc = IF xVariant = "items" THEN "unloaded" ELSE "idle"
    /\ xReply = [kind |-> "none"]
    /\ xOutcome = [kind |-> "none"]
    /\ netCalls = 0
    /\ StoreOff
    /\ xInput \in ExtractInputs
    /\ xRuns = 0
    /\ earlier = [kind |-> "none"]
    /\ needsKeySelection = FALSE

\* The client has returned or thrown and is invoked again, with the same or
\* another input; the stored key may have been saved or cleared in between.
\* The invocation that ended, or one before it, is kept for comparison.
extractAgain ==
    /\ xVariant \in {"content", "items"} /\ xPc = "done"
    /\ xRuns + 1 < MaxRuns
    /\ xRuns' = xRuns + 1
    /\ earlier' \in {ThisRun} \cup (IF earlier.kind = "run" THEN {earlier} ELSE {})
    /\ xInput' \in ExtractInputs
    /\ stored' \in {JsNull, Str("k1")}
    /\ xPc' = "idle"
    /\ xReply' = [kind |-> "none"]
    /\ xOutcome' = [kind |-> "none"]
    /\ netCalls' = 0
    /\ UNCHANGED <<envKey, aistudio, hostHasKey, app, xVariant, storeCalls,
                   needsKeySelection>>

NextTwice ==
    \/ loadGeminiService
    \/ callExtractContent
    \/ callExtractItems
    \/ generateContentSettled
    \/ extractAgain

SpecTwice == InitTwice /\ [][NextTwice]_vars

(***************************************************************************)
(* The host-selection App (src/unnamed/part_003 lines 11-126, 274-293):    *)
(* the key is the host's business, the App only asks for a selection       *)
(***************************************************************************)
MsgSessionExpired == "Session expired or invalid key. Please select your API key again."

MsgSelectFailed == "Failed to select API key."

MsgEntityNotFound == "Requested entity was not found."

\* messages of the Errors the extraction of part_003 line 108 may reject with
HostUpstreamErrors ==
    { MsgEntityNotFound,
      "404: Requested entity was not found. Check the project.",
      "API key not valid. Please pass a valid API key.",
      "Network timeout" }

\* what the awaited extractContentFromImage(base64Image, mimeType) of line
\* 108 may settle with during a conversion of img
HostAppOutcomes(img) ==
    {Return(GoodResult(img))} \cup {Throw(Error(m)) : m \in HostUpstreamErrors}

\* an outstanding handleConvert call of part_003, with the isAistudioEnv its
\* closure was created with (the dependency list of line 126)
HostCall(img, inHost, stage) == [img |-> img, inHost |-> inHost, stage |-> stage]

\* what part_003 does not have (no credential in its state) stays as it is
hostAppUnused == <<envKey, stored, isKeyReady, activeApiKey, apiKeyError, client>>

\* The deployment of part_003: inside the host (with or without a selected
\* key) or outside it; useState initial values of lines 13-24.
InitHostApp ==
    /\ envKey \in {Undefined, Str(EnvKeyText)}
    /\ aistudio \in BOOLEAN
    /\ hostHasKey \in BOOLEAN
    /\ hostHasKey => aistudio
    /\ stored = JsNull
    /\ AppInit
    /\ ClientOff
    /\ needsKeySelection = FALSE

\* the mount effect up to init's await (lines 32-39)
initHost ==
    /\ checkPc = "start"
    /\ IF aistudio
       THEN isAistudioEnv' = TRUE /\ checkPc' = "probing"
       ELSE checkPc' = "done" /\ UNCHANGED isAistudioEnv
    /\ UNCHANGED <<aistudio, hostHasKey, conversion, selecting, calls, needsKeySelection,
                   hostAppUnused>>

\* window.aistudio.hasSelectedApiKey() resolves (lines 39-42)
initHostProbed ==
    /\ checkPc = "probing"
    /\ checkPc' = "done"
    /\ needsKeySelection' = IF ~hostHasKey THEN TRUE ELSE needsKeySelection
    /\ UNCHANGED <<aistudio, hostHasKey, isAistudioEnv, conversion, selecting, calls,
                   hostAppUnused>>

\* window.aistudio.hasSelectedApiKey() rejects and the catch of lines 43-45
\* only logs it
initHostProbeFailed ==
    /\ checkPc = "probing"
    /\ checkPc' = "done"
    /\ UNCHANGED <<aistudio, hostHasKey, isAistudioEnv, conversion, selecting, calls,
                   needsKeySelection, hostAppUnused>>

\* if (needsKeySelection) return the selection screen (line 274)
SelectionScreenShown == checkPc # "start" /\ needsKeySelection

\* the ImageUploader and the Convert button of part_003 are rendered
HostMainScreenShown == checkPc # "start" /\ ~needsKeySelection

\* handleConnectKey up to its await (lines 64-69)
handleConnectKey ==
    /\ SelectionScreenShown
    /\ IF aistudio
       THEN selecting < MaxSelecting /\ selecting' = selecting + 1
       ELSE UNCHANGED selecting
    /\ UNCHANGED <<aistudio, hostHasKey, isAistudioEnv, conversion, checkPc, calls,
                   needsKeySelection, hostAppUnused>>

\* openSelectKey() resolves, with a key picked or the dialog dismissed, and
\* lines 70-71 run
connectKeyResolved ==
    /\ selecting > 0
    /\ selecting' = selecting - 1
    /\ \E picked \in BOOLEAN : hostHasKey' = (hostHasKey \/ picked)
    /\ needsKeySelection' = FALSE
    /\ error' = JsNull
    /\ UNCHANGED <<aistudio, isAistudioEnv, imageFile, convertedItems, headerText,
                   footerText, isLoading, checkPc, calls, hostAppUnused>>

\* openSelectKey() rejects and the catch of lines 73-76 runs
connectKeyFailed ==
    /\ selecting > 0
    /\ selecting' = selecting - 1
    /\ error' = Str(MsgSelectFailed)
    /\ UNCHANGED <<aistudio, hostHasKey, isAistudioEnv, imageFile, convertedItems,
                   headerText, footerText, isLoading, checkPc, calls, needsKeySelection,
                   hostAppUnused>>

\* handleImageSelect of part_003 (lines 79-90)
hostHandleImageSelect ==
    /\ HostMainScreenShown
    /\ \E name \in Images :
        /\ imageFile' = File(name)
    /\ convertedItems' = Arr(<<>>)
    /\ headerText' = Str("")
    /\ footerText' = Str("")
    /\ error' = JsNull
    /\ UNCHANGED <<aistudio, hostHasKey, isAistudioEnv, isLoading, checkPc, selecting,
                   calls, needsKeySelection, hostAppUnused>>

\* handleConvert of part_003 up to its first await (lines 92-105)
hostHandleConvert ==
    /\ HostMainScreenShown
    /\ IF ~Truthy(imageFile)
       THEN /\ error' = Str(MsgNoImage)
            /\ UNCHANGED <<isLoading, convertedItems, headerText, footerText, calls>>
       ELSE /\ BagCardinality(calls) < MaxCalls
            /\ isLoading' = TRUE
            /\ error' = JsNull
            /\ convertedItems' = Arr(<<>>)
            /\ headerText' = Str("")
            /\ footerText' = Str("")
            /\ calls' = calls (+) SetToBag({HostCall(imageFile.name, isAistudioEnv, "encoding")})
    /\ UNCHANGED <<aistudio, hostHasKey, isAistudioEnv, imageFile, checkPc, selecting,
                   needsKeySelection, hostAppUnused>>

\* fileToBase64 resolves and extractContentFromImage is called (lines
\* 105-108)
hostFileToBase64Resolved ==
    /\ \E c \in Outstanding :
        /\ c.stage = "encoding"
        /\ calls' = (calls (-) SetToBag({c})) (+) SetToBag({HostCall(c.img, c.inHost, "extracting")})
    /\ UNCHANGED <<aistudio, hostHasKey, isAistudioEnv, conversion, checkPc, selecting,
                   needsKeySelection, hostAppUnused>>

\* the catch block asking for a new selection wherever the App runs, without
\* the "&& isAistudioEnv" of line 116
hostConvertFailedAnywhere(err, inHost) ==
    /\ IF Includes(errorMessageOf(err), "Requested entity was not found")
       THEN /\ needsKeySelection' = TRUE
            /\ error' = Str(MsgSessionExpired)
       ELSE /\ error' = Str(errorMessageOf(err))
            /\ UNCHANGED needsKeySelection
    /\ isLoading' = FALSE
    /\ UNCHANGED <<convertedItems, headerText, footerText>>

\* the catch block (lines 112-122) and the finally block (123-125) of a
\* handleConvert created with isAistudioEnv = inHost
hostConvertFailed(err, inHost) ==
    /\ IF Includes(errorMessageOf(err), "Requested entity was not found") /\ inHost
       THEN /\ needsKeySelection' = TRUE
            /\ error' = Str(MsgSessionExpired)
       ELSE /\ error' = Str(errorMessageOf(err))
            /\ UNCHANGED needsKeySelection
    /\ isLoading' = FALSE
    /\ UNCHANGED <<convertedItems, headerText, footerText>>

\* lines 109-111 and the finally block
hostConvertSucceeded(result) ==
    /\ convertedItems' = result.items
    /\ headerText' = result.headerText
    /\ footerText' = result.footerText
    /\ isLoading' = FALSE
    /\ UNCHANGED <<error, needsKeySelection>>

\* fileToBase64 rejects
hostFileToBase64Failed ==
    /\ \E c \in Outstanding, err \in EncodingFailures :
        /\ c.stage = "encoding"
        /\ calls' = calls (-) SetToBag({c})
        /\ hostConvertFailed(err, c.inHost)
    /\ UNCHANGED <<aistudio, hostHasKey, isAistudioEnv, imageFile, checkPc, selecting,
                   hostAppUnused>>

\* extractContentFromImage, called for the outstanding conversion c, settles
\* with outcome o and the rest of handleConvert runs (lines 108-125)
hostExtractSettledWith(c, o) ==
    /\ c \in Outstanding
    /\ c.stage = "extracting"
    /\ calls' = calls (-) SetToBag({c})
    /\ IF o.kind = "return" THEN hostConvertSucceeded(o.value)
       ELSE hostConvertFailed(o.err, c.inHost)
    /\ UNCHANGED <<aistudio, hostHasKey, isAistudioEnv, imageFile, checkPc, selecting,
                   hostAppUnused>>

hostExtractSettled ==
    \E c \in Outstanding : \E o \in HostAppOutcomes(c.img) : hostExtractSettledWith(c, o)

NextHostApp ==
    \/ initHost
    \/ initHostProbed
    \/ initHostProbeFailed
    \/ handleConnectKey
    \/ connectKeyResolved
    \/ connectKeyFailed
    \/ hostHandleImageSelect
    \/ hostHandleConvert
    \/ hostFileToBase64Resolved
    \/ hostFileToBase64Failed
    \/ hostExtractSettled

SpecHostApp == InitHostApp /\ [][NextHostApp]_vars

(***************************************************************************)
(* The Credential Store called directly (utils/fileUtils.ts lines 22-38)   *)
(***************************************************************************)
\* store operations in one run
MaxStoreOps == 6

\* tokens handed to setApiKey; no shape is required of a token
StoreTokens == {"", "k1", "k2"}

\* A fresh tab: nothing is stored; the App is not mounted.
InitStore ==
    /\ envKey = Undefined
    /\ aistudio = FALSE
    /\ hostHasKey = FALSE
    /\ stored = JsNull
    /\ AppInit
    /\ ClientOff
    /\ needsKeySelection = FALSE

setApiKeyCalled ==
    /\ sOps < MaxStoreOps
    /\ \E token \in StoreTokens :
        /\ stored' = setApiKey(stored, token)
        /\ lastSaved' = Str(token)
    /\ sOps' = sOps + 1
    /\ UNCHANGED <<envKey, aistudio, hostHasKey, app, xVariant, xPc, xReply, xOutcome,
                   netCalls, loaded, runs, needsKeySelection>>

clearApiKeyCalled ==
    /\ sOps < MaxStoreOps
    /\ stored' = clearApiKey(stored)
    /\ lastSaved' = JsNull
    /\ sOps' = sOps + 1
    /\ UNCHANGED <<envKey, aistudio, hostHasKey, app, xVariant, xPc, xReply, xOutcome,
                   netCalls, loaded, runs, needsKeySelection>>

getApiKeyCalled ==
    /\ sOps < MaxStoreOps
    /\ loaded' = [kind |-> "getApiKey", value |-> getApiKey(stored), expected |-> lastSaved]
    /\ sOps' = sOps + 1
    /\ UNCHANGED <<world, app, xVariant, xPc, xReply, xOutcome, netCalls, lastSaved, runs,
                   needsKeySelection>>

hasApiKeyCalled ==
    /\ sOps < MaxStoreOps
    /\ loaded' = [kind |-> "hasApiKey", value |-> hasApiKey(stored),
                  expected |-> (lastSaved # JsNull)]
    /\ sOps' = sOps + 1
    /\ UNCHANGED <<world, app, xVariant, xPc, xReply, xOutcome, netCalls, lastSaved, runs,
                   needsKeySelection>>

NextStore ==
    \/ setApiKeyCalled
    \/ clearApiKeyCalled
    \/ getApiKeyCalled
    \/ hasApiKeyCalled

SpecStore == InitStore /\ [][NextStore]_vars

(***************************************************************************)
(* Properties                                                              *)
(***************************************************************************)
\* a result is on display
ResultStored == convertedItems # Arr(<<>>) \/ Truthy(headerText) \/ Truthy(footerText)

\* C1: in every reachable state, a stored result (items, header and footer
\* text) was produced by an extraction issued for the currently selected
\* image, also when a new image was selected while a conversion was
\* outstanding.
C1_StoredResultIsForSelectedImage ==
    ResultStored =>
        /\ Truthy(imageFile)
        /\ convertedItems = GoodResult(imageFile.name).items
        /\ headerText = GoodResult(imageFile.name).headerText
        /\ footerText = GoodResult(imageFile.name).footerText

\* the first non-empty of the three credential sources, in priority order
FirstNonEmpty(env, host, storedKey) ==
    IF Truthy(env) THEN env ELSE IF Truthy(host) THEN host ELSE storedKey

\* C2: whatever the environment value, the host-runtime value and the stored
\* value are, the step that ends the key check on mount leaves the Resolver
\* READY with the first non-empty of environment > host-runtime > stored, and
\* AWAITING_USER_INPUT (not ready) only when all three are empty. The
\* host-runtime value is what process.env.API_KEY holds once the host has
\* reported a selected key.
C2_ResolvesByPriority ==
    [][(checkPc # "done" /\ checkPc' = "done" /\ ~isKeyReady /\ activeApiKey = JsNull) =>
        LET env  == IF checkPc = "start" THEN envKey ELSE Undefined
            host == IF aistudio /\ hostHasKey THEN envKey ELSE Undefined
            cred == FirstNonEmpty(env, host, getApiKey(stored))
        IN  IF Truthy(cred)
            THEN isKeyReady' /\ activeApiKey' = cred
            ELSE ~isKeyReady']_vars

\* extraction calls awaiting the external service
ExtractionsOutstanding ==
    BagCardinality([c \in {d \in Outstanding : d.stage = "extracting"} |-> CopiesIn(c, calls)])

\* C3: at no point are two extraction calls outstanding at the same time,
\* also when handleConvert is fired while a conversion is outstanding.
C3_OneExtractionAtATime == ExtractionsOutstanding <= 1

\* the messages the claim C4 names as credential failures
NamedCredentialFailure(m) ==
    \/ Includes(m, "API key not valid")
    \/ Includes(m, "API key is not available")
    \/ Includes(m, "provide one")
    \/ KeyNotFoundRegex(m)

\* C4: when an extraction fails with message m: if m contains "API key not
\* valid", "API key is not available" or "provide one", or matches
\* /API key (.*?) not found/, the Resolver goes to AWAITING_USER_INPUT
\* (isKeyReady false) with a user-facing message in apiKeyError and error
\* stays absent; otherwise error is the raw message and isKeyReady is left
\* as it was.
C4_FailureClassified ==
    [][\A c \in Outstanding : \A m \in UpstreamErrors :
        extractSettledWith(c, Throw(Error(m))) =>
            IF NamedCredentialFailure(m)
            THEN ~isKeyReady' /\ Truthy(apiKeyError') /\ error' = JsNull
            ELSE error' = Str(m) /\ isKeyReady' = isKeyReady /\ apiKeyError' = apiKeyError]_vars

\* C4, witness: a credential failure has put the key screen up with its
\* message and no generic error, while the key was in use.
C4_Witness ==
    /\ ~isKeyReady
    /\ apiKeyError = Str(MsgKeyPrompt)
    /\ error = JsNull
    /\ ~isLoading
    /\ Truthy(imageFile)

\* C5: extract() with an empty or absent credential fails with
\* CredentialUnavailable and the external service is not called: part_000
\* throws "API key is not available..." before the request, and
\* geminiService.ts does not load without a key.
C5_NoCredentialNoCall ==
    /\ (xVariant = "content" /\ xPc # "idle"
            /\ ~Truthy(IF aistudio THEN envKey ELSE stored)) =>
        /\ xPc = "done"
        /\ xOutcome = Throw(Error(MsgNotAvailable))
        /\ netCalls = 0
    /\ (xVariant = "items" /\ xPc # "unloaded" /\ ~Truthy(envKey)) =>
        /\ xPc = "loadFailed"
        /\ xOutcome = Throw(Error(MsgEnvNotSet))
        /\ netCalls = 0

\* C5, witness: part_000 was called with an empty stored key outside the host
C5_Witness ==
    /\ xVariant = "content" /\ xPc = "done"
    /\ ~aistudio /\ stored = Str("")
    /\ xOutcome = Throw(Error(MsgNotAvailable))
    /\ netCalls = 0

\* the Resolver is READY: the main screen is up and a credential is active
ResolverReady == isKeyReady /\ Truthy(activeApiKey)

\* C6: a conversion request with no image selected, or with the Resolver
\* not READY, fails in the same step with "Please upload an image first." /
\* "API Key is missing...": no call is issued and the loading flag stays
\* false.
C6_ValidationShortCircuits ==
    [][handleConvert =>
        /\ ~Truthy(imageFile) =>
            error' = Str(MsgNoImage) /\ calls' = calls /\ ~isLoading /\ ~isLoading'
        /\ (Truthy(imageFile) /\ ~ResolverReady) =>
            error' = Str(MsgKeyMissing) /\ calls' = calls /\ ~isLoading /\ ~isLoading'
                /\ ~isKeyReady']_vars

\* C6, witness: a request was refused for the missing key, nothing is
\* outstanding and nothing is loading
C6_Witness ==
    /\ error = Str(MsgKeyMissing)
    /\ ~isKeyReady
    /\ ~isLoading
    /\ calls = EmptyBag
    /\ Truthy(imageFile)

\* the stub returned a text (a non-empty string)
GotText == xPc = "done" /\ xReply.kind = "response" /\ Truthy(xReply.text)

\* what JSON.parse makes of the text the stub returned
ParsedReply == JSONParse(xReply.text.v)

ScreenRepairText ==
    "{\"items\":[{\"item\":\"Screen Repair\",\"rate\":\"2500\"}],\"otherText\":\"call back tomorrow\"}"

ScreenRepairItems ==
    Arr(<<Obj(<<[k |-> "item", v |-> Str("Screen Repair")], [k |-> "rate", v |-> Str("2500")]>>)>>)

NullFieldsText == "{\"items\":null,\"otherText\":null}"

\* C7: for a response that parses to an object, part_000 returns the parsed
\* items list and the parsed free text unchanged when they are present, an
\* empty list for missing or null items and "" for a missing or null free
\* text; the two responses of the specification give the results it states.
C7_NormalizesObject ==
    (xVariant = "content" /\ GotText /\ ParsedReply.ok /\ ParsedReply.val.t = "obj") =>
        LET items == Get(ParsedReply.val, "items")
            text  == Get(ParsedReply.val, "otherText")
        IN  /\ xOutcome.kind = "return"
            /\ items.t = "arr" => xOutcome.value.items = items
            /\ items.t \in {"undefined", "null"} => xOutcome.value.items = Arr(<<>>)
            /\ text.t = "str" => xOutcome.value.otherText = text
            /\ text.t \in {"undefined", "null"} => xOutcome.value.otherText = Str("")
            /\ xReply.text.v = ScreenRepairText =>
                xOutcome.value = [items |-> ScreenRepairItems, otherText |-> Str("call back tomorrow")]
            /\ xReply.text.v = NullFieldsText =>
                xOutcome.value = [items |-> Arr(<<>>), otherText |-> Str("")]

\* C7, witness: the response with null fields came back as [] and ""
C7_Witness ==
    /\ xVariant = "content" /\ GotText
    /\ xReply.text.v = NullFieldsText
    /\ xOutcome = Return([items |-> Arr(<<>>), otherText |-> Str("")])

\* C8: every value extract() returns is fully normalized, whatever the
\* response text: items is an array and the free text is a string (for
\* extractItemsAndRates, whose result is the items, the result is an array).
C8_ResultFullyTyped ==
    (xPc = "done" /\ xOutcome.kind = "return") =>
        IF xVariant = "content"
        THEN xOutcome.value.items.t = "arr" /\ xOutcome.value.otherText.t = "str"
        ELSE xOutcome.value.t = "arr"

\* the message of EmptyResponse
IsEmptyResponse(message) ==
    /\ Includes(message, "The API did not return any data.")
    /\ Includes(message, "handwriting might be illegible")

\* C9: when the service returns no text (an empty string, or no text at
\* all), extract() returns nothing and fails with EmptyResponse, whose
\* message says the handwriting might be illegible.
C9_EmptyResponseFails ==
    (xPc = "done" /\ xReply.kind = "response" /\ xReply.text \in {Undefined, Str("")}) =>
        /\ xOutcome.kind = "throw"
        /\ InstanceofError(xOutcome.err)
        /\ IsEmptyResponse(xOutcome.err.message)

\* C9, witness: the stub answered with the empty string
C9_Witness ==
    /\ xPc = "done"
    /\ xReply = Response(Str(""))
    /\ xOutcome = Throw(Error(MsgNoData))

\* the top-level shape the client's response schema declares
ExpectedShape(val) == IF xVariant = "content" THEN val.t = "obj" ELSE val.t = "arr"

\* C10: a response text that cannot be parsed, or that parses to a top-level
\* value that is not of the expected shape (an object for part_000, an array
\* for extractItemsAndRates), makes extract() fail with MalformedResponse,
\* with one message for the unparseable text and another for the wrong shape.
C10_MalformedResponseFails ==
    GotText =>
        /\ ~ParsedReply.ok =>
            /\ xOutcome.kind = "throw"
            /\ xOutcome.err.message = MsgFailedToProcess
        /\ (ParsedReply.ok /\ ~ExpectedShape(ParsedReply.val)) =>
            /\ xOutcome.kind = "throw"
            /\ Includes(xOutcome.err.message, MsgUnexpectedFormat)
            /\ xOutcome.err.message # MsgFailedToProcess

\* generateContent rejected with an Error of the network/service layer
ServiceFailed == xPc = "done" /\ xReply.kind = "reject" /\ InstanceofError(xReply.err)

\* C11: a failure raised by the network/service layer during extract()
\* reaches the caller verbatim: the message the caller sees is exactly the
\* message the service layer produced.
C11_UpstreamVerbatim ==
    ServiceFailed =>
        /\ xOutcome.kind = "throw"
        /\ xOutcome.err.message = xReply.err.message

\* C11, amended: part_000 rethrows the service layer's Error itself, and
\* extractItemsAndRates throws an Error whose message is "AI service error: "
\* followed by the service layer's message; a SyntaxError of the service
\* layer is reported by both as "Failed to process the AI's response...".
C11_UpstreamRelayed ==
    ServiceFailed =>
        /\ xOutcome.kind = "throw"
        /\ IF InstanceofSyntaxError(xReply.err)
           THEN xOutcome.err = Error(MsgFailedToProcess)
           ELSE IF xVariant = "content"
           THEN xOutcome.err = xReply.err
           ELSE xOutcome.err = Error(MsgServicePrefix \o xReply.err.message)

\* C11, witness: part_000 handed a network failure on as it was
C11_Witness ==
    /\ xVariant = "content" /\ xPc = "done"
    /\ xReply = Rejection(Error("Network timeout"))
    /\ xOutcome = Throw(Error("Network timeout"))

\* C12: invalidating the credential after the extraction call reported it
\* invalid leaves the Credential Store as it was: load() afterwards returns
\* the same token as before.
C12_InvalidationKeepsStore ==
    [][\A c \in Outstanding : \A m \in UpstreamErrors :
        (NamedCredentialFailure(m) /\ extractSettledWith(c, Throw(Error(m)))) =>
            getApiKey(stored') = getApiKey(stored)]_vars

\* C12, amended: the invalidation also clears the Credential Store: load()
\* afterwards returns absent, whatever it returned before.
C12_InvalidationClearsStore ==
    [][\A c \in Outstanding : \A m \in UpstreamErrors :
        (NamedCredentialFailure(m) /\ extractSettledWith(c, Throw(Error(m)))) =>
            /\ ~isKeyReady'
            /\ getApiKey(stored') = JsNull]_vars

\* C12, witness: outside the host and with no environment key, the key in
\* use came from the store; after the credential failure the store is empty
C12_Witness ==
    /\ envKey = Undefined /\ ~isAistudioEnv /\ checkPc = "done"
    /\ ~isKeyReady
    /\ apiKeyError = Str(MsgKeyPrompt)
    /\ getApiKey(stored) = JsNull

\* C13: when the host-runtime probe fails during the key check on mount, the
\* host-runtime source counts as absent and the check goes on to the stored
\* value: no error results, and a non-empty stored value makes the Resolver
\* READY with it.
C13_ProbeFailureFallsThrough ==
    [][(checkKeyProbeFailed /\ ~isKeyReady /\ activeApiKey = JsNull) =>
        /\ apiKeyError' = JsNull
        /\ error' = JsNull
        /\ Truthy(getApiKey(stored)) =>
            isKeyReady' /\ activeApiKey' = getApiKey(stored)]_vars

\* C14: submitting a non-empty credential string on the manual-entry path
\* saves it in the Credential Store and makes the Resolver READY with it as
\* the active credential in the same step; submitting an empty or
\* whitespace-only string changes nothing. The string submitted is the
\* field's content without its surrounding whitespace.
C14_ManualSave ==
    [][\A manualKey \in ManualKeyInputs :
        handleSubmitWith(manualKey) =>
            IF Trim(manualKey) # ""
            THEN /\ getApiKey(stored') = Str(Trim(manualKey))
                 /\ activeApiKey' = Str(Trim(manualKey))
                 /\ isKeyReady'
            ELSE UNCHANGED vars]_vars

\* C14, witness: the key typed on the key screen is stored and active
C14_Witness ==
    /\ isManualMode /\ checkPc = "done"
    /\ isKeyReady
    /\ activeApiKey = Str("k2")
    /\ getApiKey(stored) = Str("k2")

\* C15: on a successful extraction the result's fields (items, header and
\* footer text) are adopted verbatim into ConversionState and the Resolver's
\* error message is cleared.
C15_SuccessAdopted ==
    [][\A c \in Outstanding :
        extractSettledWith(c, Return(GoodResult(c.img))) =>
            /\ convertedItems' = GoodResult(c.img).items
            /\ headerText' = GoodResult(c.img).headerText
            /\ footerText' = GoodResult(c.img).footerText
            /\ apiKeyError' = JsNull]_vars

\* C15, witness: the only conversion has succeeded and its result is on
\* display for the selected image
C15_Witness ==
    /\ ResultStored
    /\ Truthy(imageFile)
    /\ convertedItems = GoodResult(imageFile.name).items
    /\ headerText = GoodResult(imageFile.name).headerText
    /\ apiKeyError = JsNull
    /\ ~isLoading /\ calls = EmptyBag

\* C16: whenever a new image is selected, ConversionState is reset to empty:
\* right after the step the items are empty, header and footer text are empty
\* and the error is absent, whatever they were before.
C16_SelectResets ==
    [][handleImageSelect =>
        /\ Truthy(imageFile')
        /\ convertedItems' = Arr(<<>>)
        /\ headerText' = Str("")
        /\ footerText' = Str("")
        /\ error' = JsNull]_vars

\* C16, witness: img2 was selected while the conversion of img1 is
\* outstanding, and nothing is on display
C16_Witness ==
    /\ imageFile = File("img2")
    /\ \E c \in Outstanding : c.img = "img1"
    /\ ~ResultStored
    /\ error = JsNull

\* a conversion can be started: the main screen is up, a credential is
\* active and an image is selected
CanStartConversion == MainScreenShown /\ ResolverReady /\ Truthy(imageFile)

\* what the user can do (enter a key, open the host's key dialog and pick a
\* key in it, select an image, press Convert), and the mount of the App
RecoveryStep ==
    \/ checkKey
    \/ handleSubmit
    \/ handleSelectKey
    \/ openSelectKeyResolved
    \/ handleImageSelect
    \/ handleConvert

Recoverable0 == CanStartConversion

Recoverable1 == Recoverable0 \/ ENABLED (RecoveryStep /\ Recoverable0')

Recoverable2 == Recoverable1 \/ ENABLED (RecoveryStep /\ Recoverable1')

Recoverable3 == Recoverable2 \/ ENABLED (RecoveryStep /\ Recoverable2')

Recoverable4 == Recoverable3 \/ ENABLED (RecoveryStep /\ Recoverable3')

\* C17: there is no unrecoverable state: from every reachable state, also
\* after a failure, some sequence of user actions leads to a state where the
\* Resolver is READY and a conversion can be started.
C17_Recoverable == Recoverable4

\* C17, witness: after a credential failure in the host the key screen is
\* up, and a conversion can be started again only after the key dialog
C17_Witness ==
    /\ KeyScreenShown /\ ~isManualMode
    /\ apiKeyError = Str(MsgKeyPrompt)
    /\ selecting = 0
    /\ ~Recoverable1
    /\ Recoverable2

\* the step ends a conversion with SUCCESS: the result is stored, no failure
\* is reported
SuccessReached(result) ==
    /\ convertedItems' = result.items
    /\ headerText' = result.headerText
    /\ footerText' = result.footerText
    /\ error' = error
    /\ isKeyReady' = isKeyReady

\* the step ends a conversion with CREDENTIAL_FAILURE: the key screen comes
\* up with its message, no result and no generic error
CredentialFailureReached ==
    /\ ~isKeyReady'
    /\ apiKeyError' = Str(MsgKeyPrompt)
    /\ error' = JsNull
    /\ UNCHANGED <<convertedItems, headerText, footerText>>

\* the step ends a conversion with GENERIC_FAILURE: the message is reported,
\* no result, the Resolver is left alone
GenericFailureReached(message) ==
    /\ error' = Str(message)
    /\ UNCHANGED <<convertedItems, headerText, footerText, resolver>>

\* the one outcome a conversion reaches when its awaited call settles with o
OutcomeReached(o) ==
    IF o.kind = "return" THEN SuccessReached(o.value)
    ELSE IF NamedCredentialFailure(o.err.message) THEN CredentialFailureReached
    ELSE GenericFailureReached(o.err.message)

\* the conversion c is over: it is no longer outstanding and the loading
\* flag is cleared
BackToIdle(c) == calls' = calls (-) SetToBag({c}) /\ ~isLoading'

\* C18: every conversion that passed validation and entered CALLING reaches,
\* once the file encoding and the extraction call have settled, exactly one
\* of SUCCESS, CREDENTIAL_FAILURE and GENERIC_FAILURE and is then back at
\* IDLE with the loading flag cleared: an outstanding conversion can always
\* take its next step, the step in which it settles has the effects of the
\* one outcome and clears the flag, and a set loading flag is eventually
\* cleared.
C18_ConversionTerminates ==
    /\ [](\A c \in Outstanding :
            IF c.stage = "encoding"
            THEN ENABLED (fileToBase64Resolved \/ fileToBase64Failed)
            ELSE ENABLED extractSettled)
    /\ [][\A c \in Outstanding : \A o \in AppOutcomes(c.img) :
            extractSettledWith(c, o) => OutcomeReached(o) /\ BackToIdle(c)]_vars
    /\ [][fileToBase64Failed =>
            /\ GenericFailureReached(MsgUnknown)
            /\ \E c \in Outstanding : c.stage = "encoding" /\ BackToIdle(c)]_vars
    /\ (isLoading ~> ~isLoading)

\* C18, witness: a conversion ended with GENERIC_FAILURE, nothing is
\* outstanding and the loading flag is cleared
C18_Witness ==
    /\ error = Str("Network timeout")
    /\ isKeyReady
    /\ ~isLoading
    /\ calls = EmptyBag

\* C19: the Credential Store is one last-write-wins cell: load() returns
\* the token of the most recent save() not followed by clear(), and absent
\* before any save() and after clear(); hasApiKey() tells which.
C19_StoreIsLastWriteWins ==
    /\ getApiKey(stored) = lastSaved
    /\ loaded.kind \in {"getApiKey", "hasApiKey"} => loaded.value = loaded.expected
    /\ sOps = 0 => getApiKey(stored) = JsNull

\* C19, witness: getApiKey returned k2, saved before it, and k1 has been
\* saved over it since
C19_Witness ==
    /\ loaded = [kind |-> "getApiKey", value |-> Str("k2"), expected |-> Str("k2")]
    /\ getApiKey(stored) = Str("k1")

\* conversions in the given stage
StageCount(stage) ==
    BagCardinality([c \in {d \in Outstanding : d.stage = stage} |-> CopiesIn(c, calls)])

\* the step invokes the Extraction Client: one more extraction is outstanding
ClientInvoked == StageCount("extracting")' > StageCount("extracting")

\* the step ends the conversion c
ConversionEnds(c) == c \in Outstanding /\ calls' = calls (-) SetToBag({c})

\* extract() was called and has returned or thrown
ExtractReturned == xVariant \in {"content", "items"} /\ xPc = "done"

\* C20: each conversion that passes validation causes exactly one invocation
\* of the Extraction Client, and each extract() call invokes the external
\* service exactly once; a failed call is not retried. A conversion that
\* ends has had its one invocation, and an extract() call that has ended
\* has made its one request.
C20_ExactlyOneCall ==
    /\ [][\A c \in Outstanding : ConversionEnds(c) => c.stage = "extracting"]_vars
    /\ [][ClientInvoked =>
            /\ StageCount("extracting")' = StageCount("extracting") + 1
            /\ StageCount("encoding")' = StageCount("encoding") - 1]_vars
    /\ [](netCalls <= 1)
    /\ [](ExtractReturned => netCalls = 1)

\* C20, amended: at most one invocation of the Extraction Client per
\* conversion, exactly one unless the file encoding fails, and the conversion
\* ends when that invocation settles, failed or not; at most one request to
\* the external service per extract() call, exactly one unless the credential
\* is unavailable, and none after the first has settled.
C20_AtMostOneCall ==
    /\ [][\A c \in Outstanding : ConversionEnds(c) =>
            \/ c.stage = "extracting"
            \/ c.stage = "encoding" /\ error' = Str(MsgUnknown)]_vars
    /\ [][ClientInvoked =>
            /\ StageCount("extracting")' = StageCount("extracting") + 1
            /\ StageCount("encoding")' = StageCount("encoding") - 1]_vars
    /\ [][\A c \in Outstanding : \A o \in AppOutcomes(c.img) :
            extractSettledWith(c, o) => ConversionEnds(c) /\ ~ClientInvoked]_vars
    /\ [](netCalls <= 1)
    /\ [](ExtractReturned =>
            netCalls = IF xOutcome = Throw(Error(MsgNotAvailable)) /\ xReply.kind = "none"
                       THEN 0 ELSE 1)
    /\ [][netCalls' # netCalls => xPc = "idle" /\ netCalls' = 1]_vars

\* C20, witness: the one request of an extract() call failed and the call
\* threw without another request
C20_Witness ==
    /\ xVariant = "content" /\ xPc = "done"
    /\ xReply = Rejection(Error("Network timeout"))
    /\ xOutcome.kind = "throw"
    /\ netCalls = 1

\* the step is the end of a conversion with a credential-class failure
CredentialFailureStep ==
    \E c \in Outstanding : \E m \in UpstreamErrors :
        NamedCredentialFailure(m) /\ extractSettledWith(c, Throw(Error(m)))

\* the step is a selection of an image, the end of a conversion with success
\* or the end of a conversion with a generic failure
KeepsCredentialStep ==
    \/ handleImageSelect
    \/ fileToBase64Failed
    \/ \E c \in Outstanding : \E o \in AppOutcomes(c.img) :
        /\ o.kind = "throw" => ~NamedCredentialFailure(o.err.message)
        /\ extractSettledWith(c, o)

\* C21: once the Resolver is READY, the active credential changes only by
\* an invalidation (the end of a conversion with a credential-class failure)
\* or a replacement (manual entry, host selection); selecting an image, a
\* successful conversion and a generic failure leave the active credential,
\* the stored credential and READY as they were.
C21_CredentialImmutable ==
    /\ [][(ResolverReady /\ activeApiKey' # activeApiKey) =>
            CredentialFailureStep \/ handleSubmit \/ openSelectKeyResolved]_vars
    /\ [][(ResolverReady /\ KeepsCredentialStep) =>
            /\ activeApiKey' = activeApiKey
            /\ getApiKey(stored') = getApiKey(stored)
            /\ ResolverReady']_vars

\* C21, witness: a conversion with the stored key ended with a generic
\* failure while another image was selected, and the key is still active and
\* stored
C21_Witness ==
    /\ ResolverReady
    /\ activeApiKey = Str("k1") /\ getApiKey(stored) = Str("k1")
    /\ error = Str("Network timeout")
    /\ imageFile = File("img2")
    /\ calls = EmptyBag

\* the step is the end of a conversion with a failure, credential-class or
\* generic
ConversionFailsStep ==
    \/ fileToBase64Failed
    \/ \E c \in Outstanding : \E m \in UpstreamErrors : extractSettledWith(c, Throw(Error(m)))

\* C22: after a conversion fails (credential-class or generic),
\* ConversionState holds the error only and no extraction result: the items
\* are empty and header and footer text are empty, whatever interleaving of
\* conversion requests led there.
C22_FailureLeavesErrorOnly ==
    [][ConversionFailsStep =>
        /\ convertedItems' = Arr(<<>>)
        /\ headerText' = Str("")
        /\ footerText' = Str("")
        /\ Truthy(error') \/ Truthy(apiKeyError')]_vars

\* the step resolves again from AWAITING_USER_INPUT: the host's key dialog
\* closes, or the manual form is submitted
ResolvesAgainStep ==
    /\ KeyScreenShown
    /\ openSelectKeyResolved \/ handleSubmit

\* C23: resolving again from AWAITING_USER_INPUT behaves as initialization
\* does: the Resolver becomes READY with the first non-empty of environment >
\* host-runtime > stored, READY only with a non-empty credential, and when it
\* becomes READY the Resolver's error message is cleared.
C23_ReentryAsInitialization ==
    [][ResolvesAgainStep =>
        LET host == IF aistudio /\ hostHasKey' THEN envKey' ELSE Undefined
            cred == FirstNonEmpty(envKey', host, getApiKey(stored'))
        IN  /\ isKeyReady' => Truthy(activeApiKey') /\ apiKeyError' = JsNull
            /\ IF Truthy(cred)
               THEN isKeyReady' /\ activeApiKey' = cred
               ELSE ~isKeyReady']_vars

C25_ReadyHasCredential ==
    isKeyReady => activeApiKey.t = "str" /\ activeApiKey.v # ""

\* C26: the loading flag is true exactly while at least one conversion is
\* outstanding, under any interleaving of conversion requests and
\* completions: it is never false while an extraction call is in flight and
\* never true when no conversion is outstanding.
C26_LoadingIffOutstanding ==
    /\ isLoading <=> calls # EmptyBag
    /\ ExtractionsOutstanding > 0 => isLoading

\* another credential than the one the conversion c was issued with has been
\* entered and saved since, and is the active one
ReplacedSince(c) ==
    /\ ResolverReady
    /\ activeApiKey # c.key
    /\ getApiKey(stored) = activeApiKey

\* C27: a credential-class failure invalidates only the credential the
\* failed extraction was issued with: when another credential has been
\* entered and saved while the extraction was outstanding, the late failure
\* does not clear the stored credential, does not reset the active
\* credential and does not leave READY.
C27_LateFailureSparesNewKey ==
    [][\A c \in Outstanding : \A m \in UpstreamErrors :
        (/\ NamedCredentialFailure(m)
         /\ ReplacedSince(c)
         /\ extractSettledWith(c, Throw(Error(m)))) =>
            /\ getApiKey(stored') = getApiKey(stored)
            /\ activeApiKey' = activeApiKey
            /\ isKeyReady']_vars

\* manual mode: no environment value and no host runtime, and the key check
\* on mount is over
ManualModeResolved == envKey = Undefined /\ ~aistudio /\ checkPc = "done"

\* C28: in manual mode (no environment value, no host runtime), after any
\* sequence of initialization, key saves and conversions, the active
\* credential and the stored credential agree: the active credential is
\* non-null exactly when the Credential Store holds a value, and then both
\* are the same string.
C28_ActiveAgreesWithStored ==
    ManualModeResolved =>
        /\ activeApiKey # JsNull <=> hasApiKey(stored)
        /\ hasApiKey(stored) => activeApiKey = getApiKey(stored)

\* C28, witness: in manual mode k2 was entered on the key screen and a
\* conversion with it has succeeded; k2 is active and stored
C28_Witness ==
    /\ ManualModeResolved
    /\ activeApiKey = Str("k2")
    /\ getApiKey(stored) = Str("k2")
    /\ ResultStored
    /\ calls = EmptyBag

\* the failure asks for a new key selection
AsksForSelection(m) == Includes(m, "Requested entity was not found")

\* C29: in the host-selection App a key selection is required
\* (needsKeySelection is true) only inside the host runtime: a failure whose
\* message contains "Requested entity was not found" sets needsKeySelection
\* only if the host runtime was detected, and outside the host runtime every
\* failure, that one included, only sets the generic error and the
\* key-selection screen is never shown.
C29_SelectionOnlyInHost ==
    /\ [](needsKeySelection => aistudio /\ isAistudioEnv)
    /\ [](~aistudio => ~SelectionScreenShown)
    /\ [][\A c \in Outstanding : \A m \in HostUpstreamErrors :
            hostExtractSettledWith(c, Throw(Error(m))) =>
                IF AsksForSelection(m) /\ aistudio
                THEN needsKeySelection' /\ error' = Str(MsgSessionExpired)
                ELSE error' = Str(m) /\ needsKeySelection' = needsKeySelection]_vars
    /\ [][(~aistudio /\ hostFileToBase64Failed) =>
            error' = Str(MsgUnknown) /\ ~needsKeySelection']_vars

\* C29, witness: outside the host a conversion failed with "Requested
\* entity was not found."; the message is shown as the generic error and no
\* key selection is asked for
C29_Witness ==
    /\ ~aistudio /\ ~isAistudioEnv
    /\ error = Str(MsgEntityNotFound)
    /\ ~needsKeySelection
    /\ ~isLoading

====
